---- MODULE Spec2Model ----
(***************************************************************************)
(* The UniversityChallengeGame component of src/artifact-component.tsx as  *)
(* a state machine.  One action per event handler; an action is the whole  *)
(* handler, run on the values of the last render (its closure), followed   *)
(* by the re-render and the effects React runs after it.                   *)
(*                                                                         *)
(* Questions and bonus sets are named by their position in the data files  *)
(* (1..n).  Arrays are sequences; the JavaScript index i is the TLA+       *)
(* index i + 1.                                                            *)
(*                                                                         *)
(* A render that throws unmounts the component: the cleanup of the mount   *)
(* effect clears the interval and no control is left to press.  An intent  *)
(* reaches its handler only through a control of the last render; the      *)
(* handlers that check their state on entry also model the refused call.   *)
(* Writes to localStorage are taken to succeed, and the points of the      *)
(* questions of starters.json to be positive.                              *)
(***************************************************************************)
EXTENDS Integers, Sequences, FiniteSets, TLC

\* ---------------------------------------------------------------- bounds
MaxStarters == 2        \* starters.json holds 1..MaxStarters questions
MaxBonuses == 2         \* bonuses.json holds 0..MaxBonuses bonus sets
MaxRounds == 2          \* startGame is pressed at most MaxRounds times

\* ------------------------------------------------------ program constants
STARTER_TIME_LIMIT == 60000
BONUS_POINTS == 5
LAST_BONUS == 2

\* Date.now() is read at multiples of ClockStep after startTimer: before any
\* time has passed, and once the limit has.
ClockStep == STARTER_TIME_LIMIT

VARIABLES
    SAMPLE_STARTERS,    \* the questions of starters.json
    SAMPLE_BONUSES,     \* the bonus sets of bonuses.json
    starters, bonuses, gameState, currentQuestion, score, showAnswer,
    currentBonus, timerRunning, elapsedTime, buzzTimes, showBonusAnswer,
    statistics, incorrectBuzzes, correctStarters, totalStarters,
    correctBonuses, totalBonuses, currentBonusSet,
    clock,              \* Date.now() - startTime.current
    timerInterval,      \* timerInterval.current: "null", "live" or "cleared"
    leaked,             \* intervals still live that no ref points to
    storage,            \* localStorage['universityChallenge_stats']
    mounted,            \* FALSE once a render has thrown
    epoch,              \* Date.now() of the wall clock, in rounds
    drawn,              \* the bonus sets selected since the last startGame
    timeUps,            \* the calls of handleTimeUp since the last startGame
    rejected            \* the intent that was refused last, if none was
                        \* accepted since: no control was rendered for it, or
                        \* its handler returned at its entry check

vars == <<SAMPLE_STARTERS, SAMPLE_BONUSES, starters, bonuses, gameState,
          currentQuestion, score, showAnswer, currentBonus, timerRunning,
          elapsedTime, buzzTimes, showBonusAnswer, statistics,
          incorrectBuzzes, correctStarters, totalStarters, correctBonuses,
          totalBonuses, currentBonusSet, clock, timerInterval, leaked,
          storage, mounted, epoch, drawn, timeUps, rejected>>

\* The GameRound state and history, without the model's bookkeeping.
engine == <<starters, bonuses, gameState, currentQuestion, score, showAnswer,
            currentBonus, timerRunning, elapsedTime, buzzTimes,
            showBonusAnswer, statistics, incorrectBuzzes, correctStarters,
            totalStarters, correctBonuses, totalBonuses, currentBonusSet,
            clock, timerInterval, leaked, storage, mounted>>

\* ------------------------------------------------------------ pure helpers
Range(s) == {s[i] : i \in DOMAIN s}

Iota(n) == [i \in 1..n |-> i]

Permutations_(n) == {p \in [1..n -> 1..n] : \A i, j \in 1..n : p[i] = p[j] => i = j}

RECURSIVE Sum(_)
Sum(s) == IF s = <<>> THEN 0 ELSE Head(s) + Sum(Tail(s))

\* Question.points of the question at position q of starters.json.
Points(q) == 5 * (q + 1)

\* arr[i] is defined (JavaScript index i).
Defined(arr, i) == i + 1 \in DOMAIN arr

\* arr.filter((_, index) => index === i)
RemoveAtOnly(arr, i) == IF Defined(arr, i) THEN <<arr[i + 1]>> ELSE <<>>

\* arr.filter((_, index) => index !== i)
RemoveAt(arr, i) ==
    [k \in 1..(Len(arr) - (IF Defined(arr, i) THEN 1 ELSE 0)) |->
        IF k < i + 1 THEN arr[k] ELSE arr[k + 1]]

\* The starter stays in the pool.
DropStarterKeeps(prevStarters, cq) == prevStarters

\* setStarters((prevStarters) => prevStarters.filter((_, index) => index !== currentQuestion))
DropStarter(prevStarters, cq) == RemoveAt(prevStarters, cq)

\* The selected bonus set stays in the pool.
DrawBonusKeeps(prevBonuses, randomIndex) == prevBonuses

\* setBonuses((prevBonuses) => prevBonuses.filter((_, index) => index !== randomIndex))
DrawBonus(prevBonuses, randomIndex) == RemoveAt(prevBonuses, randomIndex)

\* The presented starter is not counted.
CountStarterForgets(prevTotal) == prevTotal

\* setTotalStarters((prevTotal) => prevTotal + 1)
CountStarter(prevTotal) == prevTotal + 1

\* The bonus points are taken off.
BonusScoreSubtracts(prevScore) == prevScore - BONUS_POINTS

\* setScore((prevScore) => prevScore + 5)
BonusScore(prevScore) == prevScore + BONUS_POINTS

\* getAverageBuzzTime: the quotient sum / length, kept as the pair.
getAverageBuzzTime(times) ==
    IF Len(times) = 0 THEN [sum |-> 0, n |-> 1]
    ELSE [sum |-> Sum(times), n |-> Len(times)]

\* new Date().toISOString()
toISOString(t) == <<"iso", t>>

\* JSON.stringify of the history: each record as its values in key order.
JSONstringify(stats) ==
    [i \in DOMAIN stats |->
        <<stats[i].id, stats[i].date, stats[i].avgBuzzTime, stats[i].score,
          stats[i].incorrectBuzzes, stats[i].correctStarters,
          stats[i].totalStarters, stats[i].correctBonuses,
          stats[i].totalBonuses>>]

\* JSON.parse of a stored history.
JSONparse(text) ==
    [i \in DOMAIN text |->
        [id |-> text[i][1], date |-> text[i][2], avgBuzzTime |-> text[i][3],
         score |-> text[i][4], incorrectBuzzes |-> text[i][5],
         correctStarters |-> text[i][6], totalStarters |-> text[i][7],
         correctBonuses |-> text[i][8], totalBonuses |-> text[i][9]]]

\* JSON.parse throws a SyntaxError on a value that is no JSON text.
ParseThrows(st) == st.kind = "corrupt"

\* savedStats ? JSON.parse(savedStats) : []
LoadStatistics(st) == IF st.kind = "json" THEN JSONparse(st.text) ELSE <<>>

\* A session stored by an earlier run of the program.
OldStat == [id |-> 0, date |-> toISOString(0),
            avgBuzzTime |-> [sum |-> ClockStep, n |-> 1], score |-> 10,
            incorrectBuzzes |-> 0, correctStarters |-> 1, totalStarters |-> 1,
            correctBonuses |-> 0, totalBonuses |-> 0]

StoredAtStart ==
    { [kind |-> "absent", text |-> <<>>],
      [kind |-> "corrupt", text |-> <<>>],
      [kind |-> "json", text |-> JSONstringify(<<OldStat>>)] }

\* ------------------------------------------------------------------ render
\* The JSX of the playing and answer branches reads starters[currentQuestion].
RenderThrows(gs, st, cq) == gs \in {"playing", "answer"} /\ ~Defined(st, cq)

\* The controls the last render offers.
StartOffered == mounted /\ gameState = "ready"
BuzzOffered == mounted /\ gameState = "playing"
JudgeStarterOffered == mounted /\ gameState = "answer"
ShowAnswerOffered ==
    mounted /\ gameState = "bonus" /\ currentBonusSet # 0 /\ ~showBonusAnswer
\* The judge buttons are rendered with the Show Answer button.
JudgeBonusOfferedUnrevealed ==
    mounted /\ gameState = "bonus" /\ currentBonusSet # 0

JudgeBonusOffered ==
    mounted /\ gameState = "bonus" /\ currentBonusSet # 0 /\ showBonusAnswer
SessionOffered == mounted /\ gameState = "session"

\* The interval goes on running.
clearIntervalKeeps(ti) == ti

\* clearInterval(timerInterval.current)
clearInterval(ti) == IF ti = "live" THEN "cleared" ELSE ti

\* The entry the effect on gameState builds.
NewStat(now, times, sc, ib, cs, ts, cb, tb) ==
    [id |-> now, date |-> toISOString(now),
     avgBuzzTime |-> getAverageBuzzTime(times), score |-> sc,
     incorrectBuzzes |-> ib, correctStarters |-> cs, totalStarters |-> ts,
     correctBonuses |-> cb, totalBonuses |-> tb]

\* The effect does not look at buzzTimes.
EffectFiresAlways(gs, times) == gs = "ready"

\* The condition of the effect on gameState.
EffectFires(gs, times) == gs = "ready" /\ Len(times) > 0

\* [newStat, ...prevStats]
AppendStatFirst(prevStats, newStat) == <<newStat>> \o prevStats

\* [...prevStats, newStat]
AppendStat(prevStats, newStat) == Append(prevStats, newStat)

\* What follows every handler: the render of the new state, the cleanup of
\* the mount effect if that render throws, and the effect on gameState.
\* ti is timerInterval.current as the handler left it.
Commit(ti) ==
    /\ mounted' = ~RenderThrows(gameState', starters', currentQuestion')
    /\ timerInterval' = IF mounted' THEN ti ELSE clearInterval(ti)
    /\ IF mounted' /\ gameState' # gameState /\ EffectFires(gameState', buzzTimes')
       THEN LET newStat == NewStat(epoch', buzzTimes', score', incorrectBuzzes',
                                   correctStarters', totalStarters',
                                   correctBonuses', totalBonuses')
                updatedStats == AppendStat(statistics, newStat)
            IN /\ statistics' = updatedStats
               /\ storage' = [kind |-> "json", text |-> JSONstringify(updatedStats)]
       ELSE UNCHANGED <<statistics, storage>>

Bank == <<SAMPLE_STARTERS, SAMPLE_BONUSES>>

\* -------------------------------------------------------------------- Init
Init ==
    /\ SAMPLE_STARTERS \in {Iota(n) : n \in 1..MaxStarters}
    /\ SAMPLE_BONUSES \in {Iota(n) : n \in 0..MaxBonuses}
    /\ storage \in StoredAtStart
    /\ starters = SAMPLE_STARTERS
    /\ bonuses = SAMPLE_BONUSES
    /\ gameState = "ready"
    /\ currentQuestion = 0
    /\ score = 0
    /\ showAnswer = FALSE
    /\ currentBonus = 0
    /\ timerRunning = FALSE
    /\ elapsedTime = 0
    /\ buzzTimes = <<>>
    /\ showBonusAnswer = FALSE
    /\ statistics = LoadStatistics(storage)
    /\ incorrectBuzzes = 0
    /\ correctStarters = 0
    /\ totalStarters = 0
    /\ correctBonuses = 0
    /\ totalBonuses = 0
    /\ currentBonusSet = 0
    /\ clock = 0
    /\ timerInterval = "null"
    /\ leaked = 0
    /\ mounted = ~ParseThrows(storage)
    /\ epoch = 0
    /\ drawn = <<>>
    /\ timeUps = 0
    /\ rejected = "none"

\* ----------------------------------------------------------------- actions
\* startTimer, on the refs and the three state fields it sets.
startTimer ==
    /\ clock' = 0
    /\ timerRunning' = TRUE
    /\ elapsedTime' = 0
    /\ leaked' = leaked + (IF timerInterval = "live" THEN 1 ELSE 0)

\* The bonus pool is left as the last round left it.
ResetBonusPoolKeeps == bonuses

\* setBonuses([...SAMPLE_BONUSES])
ResetBonusPool == SAMPLE_BONUSES

startGame ==
    /\ StartOffered
    /\ epoch < MaxRounds
    /\ epoch' = epoch + 1
    /\ \E p \in Permutations_(Len(SAMPLE_STARTERS)) :
          starters' = [i \in 1..Len(SAMPLE_STARTERS) |-> SAMPLE_STARTERS[p[i]]]
    /\ gameState' = "playing"
    /\ score' = 0
    /\ currentQuestion' = 0
    /\ showAnswer' = FALSE
    /\ buzzTimes' = <<>>
    /\ incorrectBuzzes' = 0
    /\ correctStarters' = 0
    /\ totalStarters' = 0
    /\ correctBonuses' = 0
    /\ totalBonuses' = 0
    /\ bonuses' = ResetBonusPool
    /\ startTimer
    /\ drawn' = <<>>
    /\ timeUps' = 0
    /\ rejected' = "none"
    /\ UNCHANGED <<Bank, currentBonus, showBonusAnswer, currentBonusSet>>
    /\ Commit("live")

\* The countdown expires at once.
TimeIsUpAtOnce(elapsed) == elapsed >= 0

\* elapsed >= STARTER_TIME_LIMIT
TimeIsUp(elapsed) == elapsed >= STARTER_TIME_LIMIT

\* Time passes while the countdown interval is live.
ClockAdvance ==
    /\ mounted
    /\ timerInterval = "live"
    /\ clock < STARTER_TIME_LIMIT
    /\ clock' = clock + ClockStep
    /\ UNCHANGED <<Bank, timeUps, starters, bonuses, gameState, currentQuestion, score,
                   showAnswer, currentBonus, timerRunning, elapsedTime,
                   buzzTimes, showBonusAnswer, statistics, incorrectBuzzes,
                   correctStarters, totalStarters, correctBonuses,
                   totalBonuses, currentBonusSet, timerInterval, leaked,
                   storage, mounted, epoch, drawn, rejected>>

\* The interval callback of startTimer, with handleTimeUp.
TimerTick ==
    /\ mounted
    /\ timerInterval = "live"
    /\ LET elapsed == clock
       IN /\ elapsedTime' = elapsed
          /\ IF TimeIsUp(elapsed)
             THEN /\ timerRunning' = FALSE
                  /\ gameState' = "answer"
                  /\ showAnswer' = TRUE
                  /\ totalStarters' = CountStarter(totalStarters)
                  /\ timeUps' = timeUps + 1
                  /\ rejected' = "none"
                  /\ UNCHANGED <<Bank, starters, bonuses, currentQuestion, score,
                                 currentBonus, buzzTimes, showBonusAnswer,
                                 incorrectBuzzes, correctStarters, correctBonuses,
                                 totalBonuses, currentBonusSet, clock, leaked,
                                 epoch, drawn>>
                  /\ Commit(clearInterval(timerInterval))
             ELSE /\ UNCHANGED <<Bank, timeUps, starters, bonuses, gameState,
                                 currentQuestion, score, showAnswer, currentBonus,
                                 timerRunning, buzzTimes, showBonusAnswer,
                                 incorrectBuzzes, correctStarters, totalStarters,
                                 correctBonuses, totalBonuses, currentBonusSet,
                                 clock, leaked, epoch, drawn, rejected>>
                  /\ Commit(timerInterval)

\* The refused intent ends the question.
RefuseEndsQuestion(intent) ==
    /\ rejected' = intent
    /\ gameState' = "session"
    /\ UNCHANGED <<Bank, timeUps, starters, bonuses, currentQuestion, score,
                   showAnswer, currentBonus, timerRunning, elapsedTime,
                   buzzTimes, showBonusAnswer, statistics, incorrectBuzzes,
                   correctStarters, totalStarters, correctBonuses,
                   totalBonuses, currentBonusSet, clock, timerInterval, leaked,
                   storage, mounted, epoch, drawn>>

\* An intent that changes nothing.
Refuse(intent) ==
    /\ rejected' = intent
    /\ UNCHANGED <<Bank, timeUps, starters, bonuses, gameState, currentQuestion, score,
                   showAnswer, currentBonus, timerRunning, elapsedTime,
                   buzzTimes, showBonusAnswer, statistics, incorrectBuzzes,
                   correctStarters, totalStarters, correctBonuses,
                   totalBonuses, currentBonusSet, clock, timerInterval, leaked,
                   storage, mounted, epoch, drawn>>

\* handleBuzz leaves the interval running.
StopCountdownForgets(ti) == ti

\* handleBuzz: clearInterval(timerInterval.current)
StopCountdown(ti) == clearInterval(ti)

\* The BUZZ button sits in the branch of the round, outside the test for
\* 'playing', and handleBuzz does not test the state.
BuzzAcceptedInRound == mounted /\ gameState \in {"playing", "answer", "bonus"}

\* The BUZZ button reaches handleBuzz, which goes on only in 'playing'.
BuzzAccepted == BuzzOffered /\ gameState = "playing"

handleBuzz ==
    /\ mounted
    /\ IF ~BuzzAccepted
       THEN Refuse("buzz")
       ELSE LET buzzTime == clock
            IN /\ timerRunning' = FALSE
               /\ buzzTimes' = Append(buzzTimes, buzzTime)
               /\ showAnswer' = TRUE
               /\ gameState' = "answer"
               /\ totalStarters' = CountStarter(totalStarters)
               /\ rejected' = "none"
               /\ UNCHANGED <<Bank, timeUps, starters, bonuses, currentQuestion, score,
                              currentBonus, elapsedTime, showBonusAnswer,
                              incorrectBuzzes, correctStarters, correctBonuses,
                              totalBonuses, currentBonusSet, clock, leaked,
                              epoch, drawn>>
               /\ Commit(StopCountdown(timerInterval))

\* The pool is taken to hold a starter whatever is left of it.
PoolHasStarterAlways(pool) == TRUE

\* starters.length > 0
PoolHasStarter(pool) == Len(pool) > 0

\* handleNextQuestion on the starters of the last render; it sets
\* currentQuestion, showAnswer, showBonusAnswer, gameState and the timer.
handleNextQuestionBody ==
    IF PoolHasStarter(starters)
    THEN /\ currentQuestion' = 0
         /\ showAnswer' = FALSE
         /\ showBonusAnswer' = FALSE
         /\ gameState' = "playing"
         /\ startTimer
    ELSE /\ gameState' = "ready"
         /\ UNCHANGED <<currentQuestion, showAnswer, showBonusAnswer, clock,
                        timerRunning, elapsedTime, leaked>>

\* timerInterval.current after handleNextQuestion.
TimerAfterNextQuestion == IF PoolHasStarter(starters) THEN "live" ELSE timerInterval

\* handleNextStep
handleNextStep == gameState' = "session"

\* The judge buttons reach handleAnswer, which goes on only when
\* starters[currentQuestion] is defined.
JudgeStarterAccepted ==
    JudgeStarterOffered /\ Defined(starters, currentQuestion)

\* The Correct and Incorrect buttons of the answer branch.
handleAnswer(correct) ==
    /\ mounted
    /\ IF ~JudgeStarterAccepted
       THEN Refuse("judgeStarter")
       ELSE /\ starters' = DropStarter(starters, currentQuestion)
            /\ rejected' = "none"
            /\ UNCHANGED <<Bank, timeUps, buzzTimes, totalStarters, correctBonuses,
                           totalBonuses, epoch>>
            /\ IF correct
               THEN /\ score' = score + Points(starters[currentQuestion + 1])
                    /\ correctStarters' = correctStarters + 1
                    /\ UNCHANGED incorrectBuzzes
                    /\ IF Len(bonuses) > 0
                       THEN /\ \E randomIndex \in 0..(Len(bonuses) - 1) :
                                 LET selectedBonus == bonuses[randomIndex + 1]
                                 IN /\ bonuses' = DrawBonus(bonuses, randomIndex)
                                    /\ currentBonusSet' = selectedBonus
                                    /\ drawn' = Append(drawn, selectedBonus)
                            /\ gameState' = "bonus"
                            /\ currentBonus' = 0
                            /\ showBonusAnswer' = FALSE
                            /\ UNCHANGED <<currentQuestion, showAnswer, clock,
                                           timerRunning, elapsedTime, leaked>>
                            /\ Commit(timerInterval)
                       ELSE /\ handleNextQuestionBody
                            /\ UNCHANGED <<bonuses, currentBonus,
                                           currentBonusSet, drawn>>
                            /\ Commit(TimerAfterNextQuestion)
               ELSE /\ incorrectBuzzes' = incorrectBuzzes + 1
                    /\ handleNextStep
                    /\ UNCHANGED <<bonuses, currentQuestion, score, showAnswer,
                                   currentBonus, timerRunning, elapsedTime,
                                   showBonusAnswer, correctStarters,
                                   currentBonusSet, clock, leaked, drawn>>
                    /\ Commit(timerInterval)

\* The Show Answer button of the bonus branch: setShowBonusAnswer(true).
revealBonusAnswer ==
    /\ ShowAnswerOffered
    /\ showBonusAnswer' = TRUE
    /\ rejected' = "none"
    /\ UNCHANGED <<Bank, timeUps, starters, bonuses, gameState, currentQuestion, score,
                   showAnswer, currentBonus, timerRunning, elapsedTime,
                   buzzTimes, incorrectBuzzes, correctStarters, totalStarters,
                   correctBonuses, totalBonuses, currentBonusSet, clock, leaked,
                   epoch, drawn>>
    /\ Commit(timerInterval)

\* The first statement of handleBonusAnswer.
BonusAnswerReturns == Len(bonuses) = 0

\* The Correct and Incorrect buttons of the bonus branch.
handleBonusAnswer(correct) ==
    /\ mounted
    /\ IF ~JudgeBonusOffered \/ BonusAnswerReturns
       THEN Refuse("judgeBonus")
       ELSE /\ IF correct
               THEN /\ score' = BonusScore(score)
                    /\ correctBonuses' = correctBonuses + 1
               ELSE UNCHANGED <<score, correctBonuses>>
            /\ totalBonuses' = totalBonuses + 1
            /\ IF currentBonus < LAST_BONUS
               THEN /\ currentBonus' = currentBonus + 1
                    /\ showBonusAnswer' = FALSE
                    /\ UNCHANGED gameState
               ELSE /\ handleNextStep
                    /\ UNCHANGED <<currentBonus, showBonusAnswer>>
            /\ rejected' = "none"
            /\ UNCHANGED <<Bank, timeUps, starters, bonuses, currentQuestion, showAnswer,
                           timerRunning, elapsedTime, buzzTimes,
                           incorrectBuzzes, correctStarters, totalStarters,
                           currentBonusSet, clock, leaked, epoch, drawn>>
            /\ Commit(timerInterval)

\* The Continue with Next Starter button of the session branch.
handleNextQuestion ==
    /\ SessionOffered
    /\ handleNextQuestionBody
    /\ rejected' = "none"
    /\ UNCHANGED <<Bank, timeUps, starters, bonuses, score, currentBonus, buzzTimes,
                   incorrectBuzzes, correctStarters, totalStarters,
                   correctBonuses, totalBonuses, currentBonusSet, epoch, drawn>>
    /\ Commit(TimerAfterNextQuestion)

\* The End Session button of the session branch.
endSession ==
    /\ SessionOffered
    /\ gameState' = "ready"
    /\ rejected' = "none"
    /\ UNCHANGED <<Bank, timeUps, starters, bonuses, currentQuestion, score, showAnswer,
                   currentBonus, timerRunning, elapsedTime, buzzTimes,
                   showBonusAnswer, incorrectBuzzes, correctStarters,
                   totalStarters, correctBonuses, totalBonuses, currentBonusSet,
                   clock, leaked, epoch, drawn>>
    /\ Commit(timerInterval)

Next ==
    \/ startGame
    \/ ClockAdvance
    \/ TimerTick
    \/ handleBuzz
    \/ \E correct \in BOOLEAN : handleAnswer(correct)
    \/ revealBonusAnswer
    \/ \E correct \in BOOLEAN : handleBonusAnswer(correct)
    \/ handleNextQuestion
    \/ endSession

Spec == Init /\ [][Next]_vars

\* ------------------------------------------------------------------ claims
\* Steps, told by what they change.
StartStep == gameState = "ready" /\ gameState' = "playing"
JudgedStarterCorrect == gameState = "answer" /\ correctStarters' = correctStarters + 1
JudgedBonusCorrect == gameState = "bonus" /\ correctBonuses' = correctBonuses + 1
EntersIdle == gameState # "ready" /\ gameState' = "ready"

\* C1: a starter judged correct while the bonus pool is empty and it is the
\* last starter of the pool takes the engine directly to Idle (ready), where
\* the round's entry is appended with the question's points as its score.
C1_LastStarterNoBonusGoesIdle ==
    [][(JudgedStarterCorrect /\ Len(bonuses) = 0 /\ Len(starters) = 1)
         => /\ gameState' = "ready"
            /\ Len(buzzTimes) > 0 =>
                  /\ Len(statistics') = Len(statistics) + 1
                  /\ statistics'[Len(statistics')].score = score']_vars

\* C2: in the bonus round with the answer revealed, every judgeBonus(correct)
\* call adds one to totalBonuses and to correctBonuses and 5 to the score,
\* and then advances the sub-question index (index < 2) or goes to the round
\* summary (index = 2), whichever bonus set was drawn.
C2_JudgeBonusCorrectCounts ==
    [][(mounted /\ gameState = "bonus" /\ currentBonusSet # 0 /\ showBonusAnswer
          /\ handleBonusAnswer(TRUE))
         => /\ totalBonuses' = totalBonuses + 1
            /\ correctBonuses' = correctBonuses + 1
            /\ score' = score + 5
            /\ IF currentBonus < 2
               THEN gameState' = "bonus" /\ currentBonus' = currentBonus + 1
               ELSE gameState' = "session"]_vars

\* C3: totalStarters never exceeds the size of the original starter pool.
C3_TotalStartersBounded == totalStarters <= Len(SAMPLE_STARTERS)

C3_Witness ==
    /\ Len(SAMPLE_STARTERS) = 2
    /\ totalStarters = 2
    /\ gameState = "session"

\* C4: in every state of a mounted component other than Idle, one of the
\* intents of that state (buzz or expiry, judgeStarter, revealBonusAnswer or
\* judgeBonus, continueRound or endSession) changes the engine's state.
IntentChangesEngine ==
    /\ \/ handleBuzz
       \/ ClockAdvance
       \/ TimerTick
       \/ \E correct \in BOOLEAN : handleAnswer(correct)
       \/ revealBonusAnswer
       \/ \E correct \in BOOLEAN : handleBonusAnswer(correct)
       \/ handleNextQuestion
       \/ endSession
    /\ engine' # engine

C4_NeverStuck ==
    (mounted /\ gameState # "ready") => ENABLED IntentChangesEngine

IsPrefix(s, t) == Len(s) <= Len(t) /\ \A i \in DOMAIN s : s[i] = t[i]

Last(s) == s[Len(s)]

\* C5: a step into Idle from another state appends exactly one entry when
\* the round recorded a buzz, carrying the round's score and five counters,
\* and appends none when it recorded no buzz; no other step appends.
C5_OneEntryPerRoundWithBuzz ==
    [][IF EntersIdle /\ Len(buzzTimes) > 0
       THEN /\ Len(statistics') = Len(statistics) + 1
            /\ IsPrefix(statistics, statistics')
            /\ Last(statistics').score = score
            /\ Last(statistics').incorrectBuzzes = incorrectBuzzes
            /\ Last(statistics').correctStarters = correctStarters
            /\ Last(statistics').totalStarters = totalStarters
            /\ Last(statistics').correctBonuses = correctBonuses
            /\ Last(statistics').totalBonuses = totalBonuses
            /\ UNCHANGED <<score, incorrectBuzzes, correctStarters,
                           totalStarters, correctBonuses, totalBonuses>>
       ELSE statistics' = statistics]_vars

C5_Witness ==
    /\ gameState = "ready"
    /\ epoch = 2
    /\ buzzTimes = <<>>
    /\ totalStarters > 0
    /\ statistics # <<>>
    /\ Last(statistics).id = 1
    /\ Last(statistics).totalBonuses = 3

\* C6: judgeBonus in the bonus round before the answer of the current
\* sub-question is revealed changes nothing: not the state, the score, the
\* bonus counters, the sub-question index or the reveal flag.
C6_JudgeBeforeRevealRejected ==
    [][(mounted /\ gameState = "bonus" /\ ~showBonusAnswer
          /\ \E correct \in BOOLEAN : handleBonusAnswer(correct))
         => UNCHANGED <<gameState, score, correctBonuses, totalBonuses,
                        currentBonus, showBonusAnswer>>]_vars

C6_Witness ==
    /\ rejected = "judgeBonus"
    /\ gameState = "bonus"
    /\ ~showBonusAnswer
    /\ Len(bonuses) > 0
    /\ currentBonus = 1

NoRepetition(s) == \A i, j \in DOMAIN s : s[i] = s[j] => i = j

\* C7: the bonus sets drawn since the last start() are all different, none
\* of them is in the remaining pool, and the set shown in the bonus round is
\* the one drawn last.
C7_NoBonusSetDrawnTwice ==
    /\ NoRepetition(drawn)
    /\ Range(drawn) \cap Range(bonuses) = {}
    /\ Len(drawn) + Len(bonuses) = Len(SAMPLE_BONUSES)
    /\ gameState = "bonus" => drawn # <<>> /\ currentBonusSet = Last(drawn)

C7_Witness ==
    /\ Len(drawn) = 2
    /\ gameState = "bonus"
    /\ epoch = 2

\* C8: correctStarters <= totalStarters and correctBonuses <= totalBonuses.
C8_CorrectAtMostTotal ==
    /\ correctStarters <= totalStarters
    /\ correctBonuses <= totalBonuses

C8_Witness ==
    /\ correctStarters = 2
    /\ totalStarters = 2
    /\ correctBonuses = 3
    /\ totalBonuses = 3

\* C9: every step other than start() leaves the score equal or larger, and
\* the score changes only by judgeStarter(correct), which adds the points of
\* the question, and by judgeBonus(correct), which adds 5.
C9_ScoreNeverDecreases ==
    [][~StartStep =>
         /\ score' >= score
         /\ score' # score =>
               \/ /\ JudgedStarterCorrect
                  /\ score' = score + Points(starters[currentQuestion + 1])
               \/ /\ JudgedBonusCorrect
                  /\ score' = score + 5]_vars

C9_Witness ==
    /\ correctStarters = 1
    /\ correctBonuses = 2
    /\ totalBonuses = 3
    /\ score = Points(Last(SAMPLE_STARTERS)) + 10

\* C10: the history only grows at its end; every step keeps the entries
\* stored before it unchanged and in order, and before and after every step
\* the list read back from storage is the history in memory.
C10_HistoryAppendOnly ==
    [][/\ IsPrefix(statistics, statistics')
       /\ Len(statistics') <= Len(statistics) + 1
       /\ IsPrefix(LoadStatistics(storage), LoadStatistics(storage'))
       /\ mounted => LoadStatistics(storage) = statistics
       /\ mounted' => LoadStatistics(storage') = statistics']_vars

C10_Witness ==
    /\ Len(statistics) = 3
    /\ statistics[1] = OldStat
    /\ statistics[2].id = 1
    /\ statistics[3].id = 2
    /\ LoadStatistics(storage) = statistics

\* C11: when the stored history is absent or is no JSON text, the component
\* is constructed in Idle with an empty history.
C11_AbsentOrCorruptLoadsEmpty ==
    (epoch = 0 /\ storage.kind \in {"absent", "corrupt"})
      => mounted /\ gameState = "ready" /\ statistics = <<>>

\* C12: buzz() in a state other than Presenting changes nothing: not the
\* game state, totalStarters, the buzz latencies or the countdown.
C12_BuzzOutsidePresentingNoOp ==
    [][(mounted /\ gameState # "playing" /\ handleBuzz)
         => UNCHANGED <<gameState, totalStarters, buzzTimes, timerRunning,
                        elapsedTime, clock, timerInterval, leaked>>]_vars

C12_Witness ==
    /\ rejected = "buzz"
    /\ gameState = "answer"
    /\ totalStarters = 1
    /\ buzzTimes = <<>>

\* The countdown stops without a buzz being recorded.
ExpiryStep == timerRunning /\ ~timerRunning' /\ buzzTimes' = buzzTimes

\* C13: the countdown expires only in Presenting and only when the whole
\* limit has elapsed; the expiry goes to Revealed, adds one to totalStarters
\* and records no latency.  A judgeStarter(incorrect) adds one to
\* incorrectBuzzes, keeps the score and goes to the round summary.
C13_ExpiryThenIncorrect ==
    [][/\ ExpiryStep =>
             /\ gameState = "playing"
             /\ clock >= 60000
             /\ gameState' = "answer"
             /\ totalStarters' = totalStarters + 1
       /\ (gameState = "playing" /\ gameState' = "answer"
             /\ buzzTimes' = buzzTimes) => clock >= 60000
       /\ (gameState = "answer" /\ handleAnswer(FALSE) /\ mounted) =>
             /\ incorrectBuzzes' = incorrectBuzzes + 1
             /\ score' = score
             /\ gameState' = "session"]_vars

C13_Witness ==
    /\ gameState = "session"
    /\ buzzTimes = <<>>
    /\ totalStarters = 1
    /\ timeUps = 1
    /\ incorrectBuzzes = 1
    /\ score = 0

\* C14: totalStarters is the number of recorded latencies plus the number
\* of expiries; it changes (outside start()) only at the end of a stay in
\* Presenting, by one, with either a latency recorded or an expiry, and
\* every stay in Presenting that ends adds one.
C14_OneCountPerStarter ==
    [][/\ totalStarters = Len(buzzTimes) + timeUps
       /\ totalStarters' = Len(buzzTimes') + timeUps'
       /\ (~StartStep /\ totalStarters' # totalStarters) =>
             /\ gameState = "playing"
             /\ gameState' = "answer"
             /\ totalStarters' = totalStarters + 1
             /\ (Len(buzzTimes') = Len(buzzTimes) + 1) # (timeUps' = timeUps + 1)
       /\ (gameState = "playing" /\ gameState' # "playing") =>
             totalStarters' = totalStarters + 1]_vars

C14_Witness ==
    /\ totalStarters = 2
    /\ Len(buzzTimes) = 1
    /\ timeUps = 1
    /\ gameState = "answer"

\* C15: no interval is left running behind the ref, and the interval of the
\* ref is running exactly in Presenting (with timerRunning set): start and
\* every return to Presenting start it, buzz and expiry clear it.
C15_OneCountdownInPresenting ==
    /\ leaked = 0
    /\ timerInterval = "live" <=> (mounted /\ gameState = "playing")
    /\ mounted => (timerRunning <=> timerInterval = "live")

C15_Witness ==
    /\ gameState = "playing"
    /\ timerInterval = "live"
    /\ totalStarters = 1
    /\ epoch = 2

\* C16: in Presenting and in Revealed the starter pool is not empty and the
\* current index is the index of one of its questions.
C16_CurrentQuestionInPool ==
    gameState \in {"playing", "answer"} =>
        /\ Len(starters) > 0
        /\ Defined(starters, currentQuestion)

\* The pool without the question at JavaScript index i.
Without(pool, i) == SubSeq(pool, 1, i) \o SubSeq(pool, i + 2, Len(pool))

\* An accepted judgeStarter: one of the judge buttons of the Revealed state.
JudgeStarterStep ==
    /\ mounted
    /\ gameState = "answer"
    /\ Defined(starters, currentQuestion)
    /\ \E correct \in BOOLEAN : handleAnswer(correct)

\* C17: during a round the pools only shrink: no step other than start()
\* adds a question to the starter pool or a set to the bonus pool, and an
\* accepted judgeStarter removes the question just presented and no other.
C17_PoolsOnlyShrink ==
    [][/\ ~StartStep =>
             /\ Len(starters') <= Len(starters)
             /\ Range(starters') \subseteq Range(starters)
             /\ Len(bonuses') <= Len(bonuses)
             /\ Range(bonuses') \subseteq Range(bonuses)
       /\ JudgeStarterStep =>
             starters' = Without(starters, currentQuestion)]_vars

C17_Witness ==
    /\ Len(SAMPLE_STARTERS) = 2
    /\ Len(starters) = 1
    /\ Len(SAMPLE_BONUSES) = 2
    /\ Len(bonuses) = 1
    /\ gameState = "session"

\* C18: in the round summary continueRound goes to Presenting with the
\* countdown restarted when the starter pool holds a question and to Idle
\* when it holds none; endSession goes to Idle whatever is left; neither
\* changes the score or a counter.
C18_ContinueOrEnd ==
    [][/\ handleNextQuestion =>
             IF Len(starters) > 0
             THEN /\ gameState' = "playing"
                  /\ timerInterval' = "live"
                  /\ timerRunning'
                  /\ elapsedTime' = 0
                  /\ clock' = 0
             ELSE gameState' = "ready"
       /\ endSession => gameState' = "ready"
       /\ (handleNextQuestion \/ endSession) =>
             UNCHANGED <<score, incorrectBuzzes, correctStarters,
                         totalStarters, correctBonuses, totalBonuses>>]_vars

C18_Witness ==
    /\ gameState = "playing"
    /\ incorrectBuzzes = 1
    /\ totalStarters = 1
    /\ Len(starters) = 1
    /\ timerRunning
    /\ clock = 0

\* C19: start() from Idle, after an earlier round too, leaves the engine in
\* Presenting with the score, the five counters and the buzz latencies
\* reset, the starter pool a permutation of the full set, the bonus pool
\* the full set, and the countdown running from zero.
C19_StartResets ==
    [][startGame =>
         /\ gameState' = "playing"
         /\ mounted'
         /\ score' = 0
         /\ incorrectBuzzes' = 0
         /\ correctStarters' = 0
         /\ totalStarters' = 0
         /\ correctBonuses' = 0
         /\ totalBonuses' = 0
         /\ buzzTimes' = <<>>
         /\ Len(starters') = Len(SAMPLE_STARTERS)
         /\ Range(starters') = Range(SAMPLE_STARTERS)
         /\ bonuses' = SAMPLE_BONUSES
         /\ timerInterval' = "live"
         /\ timerRunning'
         /\ elapsedTime' = 0
         /\ clock' = 0]_vars

C19_Witness ==
    /\ epoch = 2
    /\ gameState = "playing"
    /\ totalStarters = 0
    /\ clock = 0
    /\ bonuses = SAMPLE_BONUSES
    /\ Len(bonuses) = 2
    /\ statistics # <<>>
    /\ Last(statistics).id = 1
    /\ Last(statistics).totalBonuses > 0

\* C20: a judgeStarter that finds no question at the current index of the
\* starter pool changes nothing: not the game state, the score, a counter
\* or either pool.
C20_JudgeWithoutQuestionRejected ==
    [][(/\ mounted
        /\ ~Defined(starters, currentQuestion)
        /\ \E correct \in BOOLEAN : handleAnswer(correct))
         => UNCHANGED <<gameState, score, incorrectBuzzes, correctStarters,
                        totalStarters, correctBonuses, totalBonuses,
                        starters, bonuses>>]_vars

C20_Witness ==
    /\ mounted
    /\ rejected = "judgeStarter"
    /\ starters = <<>>
    /\ currentQuestion = 0
====
